---- MODULE Spec2Model ----
(***************************************************************************)
(* A model of the request/response pipeline of the okta client             *)
(* (src/okta.go): New, addOptions, NewRequest, AddAuthorization, Do,       *)
(* checkResponse.  Callers run the pipeline on one shared Client; each     *)
(* caller owns its request, its context and its destination value.         *)
(* The HTTP transport, the response body reader and the JSON decoder are   *)
(* the environment: their outcomes are inputs drawn from small sets.       *)
(***************************************************************************)
EXTENDS Integers, Sequences, FiniteSets, TLC

\* ------------------------------------------------------------------ bounds

\* Number of callers that use the Client at the same time.
NumCalls == 2
\* Length of a response body longer than the drain limit.
LongBodyLen == 600

\* Program constant: the deferred drain reads at most 512 bytes (okta.go:120).
DrainLimit == 512
\* The least room the JSON decoder's buffer has for a Read (encoding/json's
\* minRead), behind json.NewDecoder at okta.go:136.
DecodeBufLen == 512

Calls == 1..NumCalls

Min(a, b) == IF a < b THEN a ELSE b

\* ------------------------------------------------------------------ URLs

\* url.URL, reduced to the components this code touches.
NoURL == [Scheme |-> "", Host |-> "", Path |-> "", RawQuery |-> ""]

Hosts == {"", "acme.okta.com", "other.okta.com"}
Paths == {"", "/", "users/42", "/users/42", "/api/v1/groups"}
AbsPaths == {"/", "/users/42", "/api/v1/groups"}
Queries == {"", "limit=2"}

\* The URLs of the model: a relative reference (no scheme, no host), or an
\* absolute https URL whose path is empty or absolute.
URLs ==
    {u \in [Scheme : {"", "https"}, Host : Hosts, Path : Paths, RawQuery : Queries] :
        /\ (u.Scheme = "") <=> (u.Host = "")
        /\ u.Host # "" => u.Path \in AbsPaths \cup {""}}

\* (*url.URL).String(): scheme ":" "//" host path "?" query.
URLString(u) ==
    (IF u.Scheme # "" THEN u.Scheme \o ":" ELSE "")
        \o (IF u.Host # "" THEN "//" \o u.Host ELSE "")
        \o u.Path
        \o (IF u.RawQuery # "" THEN "?" \o u.RawQuery ELSE "")

\* url.Parse over the strings of the model: the URL whose String() is s, or
\* an error for a string that is no URL (":bad", a missing protocol scheme).
UrlParse(s) ==
    IF \E u \in URLs : URLString(u) = s
    THEN [ok |-> TRUE, u |-> CHOOSE u \in URLs : URLString(u) = s]
    ELSE [ok |-> FALSE, u |-> NoURL]

\* baseURL = "https://%s.okta.com/"; buildURL is fmt.Sprintf(baseURL, args...).
buildURL(organisation) == "https://" \o organisation \o ".okta.com/"

\* The base path up to and including its last slash.
DirOf(base) ==
    CASE base = "/api/v1/groups" -> "/api/v1/"
      [] base = "/users/42" -> "/users/"
      [] OTHER -> "/"

\* resolvePath of net/url for paths without dot segments: an empty reference
\* keeps the base path, an absolute one replaces it, a relative one is
\* appended to the base path up to its last slash.
resolvePath(base, ref) ==
    IF ref = "" THEN base
    ELSE IF ref \in AbsPaths THEN ref
    ELSE DirOf(base) \o ref

\* (*url.URL).ResolveReference(ref): RFC 3986 reference resolution.
ResolveReference(base, ref) ==
    IF ref.Scheme # "" \/ ref.Host # ""
    THEN [ref EXCEPT !.Scheme = IF ref.Scheme = "" THEN base.Scheme ELSE ref.Scheme]
    ELSE [Scheme |-> base.Scheme,
          Host |-> base.Host,
          Path |-> resolvePath(base.Path, ref.Path),
          RawQuery |-> IF ref.Path = "" /\ ref.RawQuery = ""
                       THEN base.RawQuery ELSE ref.RawQuery]

\* ------------------------------------------------------------------ errors

\* An error value: kind "nil" is the nil error; kind "ErrorResponse" carries
\* Code, Type and Message, the other kinds carry nothing.
Err(kind) == [kind |-> kind, Code |-> 0, Type |-> "", Message |-> ""]
NilErr == Err("nil")

\* http.StatusText for the status codes of the model ("" for an unknown code).
StatusText(c) ==
    CASE c = 200 -> "OK"
      [] c = 201 -> "Created"
      [] c = 204 -> "No Content"
      [] c = 300 -> "Multiple Choices"
      [] c = 404 -> "Not Found"
      [] c = 500 -> "Internal Server Error"
      [] OTHER -> ""

\* ------------------------------------------------------------------ options

\* addOptions(s, opt).  opt is a nil pointer, a struct with url tags, or a
\* value query.Values rejects (not a struct).
\* query.Values encodes the struct's tagged field as "limit=<n>".
QueryValues(opt) ==
    CASE opt.kind = "struct" -> [ok |-> TRUE, q |-> "limit=" \o ToString(opt.limit)]
      [] OTHER -> [ok |-> FALSE, q |-> ""]

addOptions(s, opt) ==
    IF opt.kind = "nilptr" THEN [s |-> s, err |-> NilErr]
    ELSE LET p == UrlParse(s) IN
         IF ~p.ok THEN [s |-> s, err |-> Err("url.Error")]
         ELSE LET qs == QueryValues(opt) IN
              IF ~qs.ok THEN [s |-> s, err |-> Err("query.Error")]
              ELSE [s |-> URLString([p.u EXCEPT !.RawQuery = qs.q]),
                    err |-> NilErr]

\* ------------------------------------------------------------------ requests

HeaderNames == {"Accept", "Content-Type", "User-Agent", "Authorization"}
Absent == "(absent)"
NoHeaders == [h \in HeaderNames |-> Absent]

\* http.Header.Set
HeaderSet(H, name, value) == [H EXCEPT ![name] = value]

\* A *http.Request: method, URL, header map, and whether it carries a body.
NoReq == [Method |-> "", URL |-> "", Header |-> NoHeaders, hasBody |-> FALSE]

ValidMethods == {"GET", "POST"}

\* ------------------------------------------------------------------ responses

\* A response body as the transport hands it over: its bytes (text), their
\* number, what a JSON decoder finds at its start ("value": a complete JSON
\* value of jsonLen bytes, "syntax": an invalid byte, "partial": a proper
\* prefix of a value, the empty text included), the id field a decoded
\* value carries ("" for none), and whether the reader ends with an I/O
\* error (fail) instead of end-of-input.
EmptyBody == [text |-> "", len |-> 0, json |-> "partial", jsonLen |-> 0,
              id |-> "", fail |-> FALSE]
IdBody == [text |-> "{\"id\":\"7\"}", len |-> 10, json |-> "value", jsonLen |-> 10,
           id |-> "7", fail |-> FALSE]
MsgBody == [text |-> "{\"msg\":\"not found\"}", len |-> 19, json |-> "value",
            jsonLen |-> 19, id |-> "", fail |-> FALSE]
TextBody == [text |-> "oops", len |-> 4, json |-> "syntax", jsonLen |-> 0,
             id |-> "", fail |-> FALSE]
CutBody == [text |-> "{\"id", len |-> 4, json |-> "partial", jsonLen |-> 0,
            id |-> "", fail |-> FALSE]
LongBody == [text |-> "{\"id\":\"7\"} ...", len |-> LongBodyLen, json |-> "value",
             jsonLen |-> 10, id |-> "7", fail |-> FALSE]
FailBody == [text |-> "", len |-> 0, json |-> "partial", jsonLen |-> 0,
             id |-> "", fail |-> TRUE]
FailCutBody == [text |-> "{\"id", len |-> 4, json |-> "partial", jsonLen |-> 0,
                id |-> "", fail |-> TRUE]

\* The destination v of Do: nil, an io.Writer, or a pointer to a record
\* with an id field; value is what it holds.
NilDest == [kind |-> "nil", value |-> ""]
WriterDest == [kind |-> "writer", value |-> ""]
StructDest == [kind |-> "struct", value |-> "old"]

\* What Do has done to the response body: bytes read so far, the reads in
\* order, the bytes the deferred drain read, whether the body is closed,
\* and which read, if any, met the reader's I/O error.
NoBodyState == [off |-> 0, log |-> <<>>, drained |-> 0, closed |-> FALSE, ioErr |-> ""]

\* checkResponse(r): nil for 200..299; otherwise an ErrorResponse, with
\* Code, Type and Message set only if reading the whole body succeeded.
checkResponse(status, body) ==
    IF 200 <= status /\ status <= 299
    THEN [err |-> NilErr, bs |-> NoBodyState]
    ELSE [err |-> IF ~body.fail
                  THEN [kind |-> "ErrorResponse", Code |-> status,
                        Type |-> StatusText(status), Message |-> body.text]
                  ELSE Err("ErrorResponse"),
          bs |-> [NoBodyState EXCEPT !.off = body.len,
                                     !.log = <<"ReadAll">>,
                                     !.ioErr = IF body.fail THEN "ReadAll" ELSE ""]]

\* The decoder's refill loop.  The body reader offers reads[i] bytes at the
\* i-th Read (its last entry at every later one).  Before a Read the buffer
\* grows to 2*cap + DecodeBufLen if it has less than DecodeBufLen bytes of
\* room; the Read delivers what is offered, as far as the room and the body
\* go.  The loop ends when `have` bytes reach `target` or the body ends; the
\* result is the number of bytes read from the body.
RECURSIVE ReadUntil(_, _, _, _, _, _)
ReadUntil(target, bodyLen, reads, i, have, cap) ==
    IF have >= target \/ have >= bodyLen THEN have
    ELSE LET cap2 == IF cap - have < DecodeBufLen THEN 2 * cap + DecodeBufLen ELSE cap
             n == Min(Min(reads[Min(i, Len(reads))], cap2 - have), bodyLen - have)
         IN ReadUntil(target, bodyLen, reads, i + 1, have + n, cap2)

\* json.NewDecoder(resp.Body).Decode(v).  The decoder reads until it has one
\* complete value, meets an invalid byte, or the reader ends; what it has
\* read beyond the value stays in its buffer.
Decode(body, v, reads) ==
    CASE body.json = "value" ->
            [err |-> NilErr,
             v |-> IF body.id # "" THEN [v EXCEPT !.value = body.id] ELSE v,
             off |-> ReadUntil(body.jsonLen, body.len, reads, 1, 0, 0),
             ioErr |-> ""]
      [] body.json = "syntax" ->
            [err |-> Err("json.SyntaxError"), v |-> v,
             off |-> ReadUntil(1, body.len, reads, 1, 0, 0),
             ioErr |-> ""]
      [] OTHER ->
            [err |-> IF body.fail THEN Err("bodyIOError")
                     ELSE IF body.len = 0 THEN Err("io.EOF")
                     ELSE Err("io.ErrUnexpectedEOF"),
             v |-> v, off |-> body.len,
             ioErr |-> IF body.fail THEN "Decode" ELSE ""]

\* A drain that copies the rest of the body, with no limit.
DrainAllAndClose(body, bs) ==
    [bs EXCEPT !.drained = body.len - bs.off,
               !.off = body.len,
               !.log = bs.log \o <<"CopyN", "Close">>,
               !.closed = TRUE]

\* The deferred function of Do: io.CopyN(ioutil.Discard, resp.Body, 512),
\* then resp.Body.Close().
DrainAndClose(body, bs) ==
    [bs EXCEPT !.drained = Min(DrainLimit, body.len - bs.off),
               !.off = bs.off + Min(DrainLimit, body.len - bs.off),
               !.log = bs.log \o <<"CopyN", "Close">>,
               !.closed = TRUE]

\* An error return that drops the Response.
ErrorReturnNoResponse(err) == [resp |-> FALSE, err |-> err]

\* Do's return when checkResponse reports an error: the Response goes back
\* with the error.
ErrorReturn(err) == [resp |-> TRUE, err |-> err]

\* A decode result that keeps the decoder's end-of-input.
KeepEOF(err) == err

\* err == io.EOF is ignored: an empty response body is no error.
IgnoreEOF(err) == IF err = Err("io.EOF") THEN NilErr ELSE err

\* The `if v != nil` block of Do: nothing for a nil v, io.Copy into an
\* io.Writer (its result dropped), else the JSON decode with io.EOF ignored.
\* Gives the error Do returns, the destination and the body state.
DoStore(body, v, reads) ==
    IF v.kind = "nil"
    THEN [err |-> NilErr, v |-> v, bs |-> NoBodyState]
    ELSE IF v.kind = "writer"
    THEN [err |-> NilErr,
          v |-> [v EXCEPT !.value = body.text],
          bs |-> [NoBodyState EXCEPT !.off = body.len, !.log = <<"io.Copy">>,
                                     !.ioErr = IF body.fail THEN "io.Copy" ELSE ""]]
    ELSE LET d == Decode(body, v, reads) IN
         [err |-> IgnoreEOF(d.err),
          v |-> d.v,
          bs |-> [NoBodyState EXCEPT !.off = d.off, !.log = <<"Decode">>,
                                     !.ioErr = d.ioErr]]

\* A failure path that returns the transport's error whatever ctx says.
DoTransportErrorRaw(ctxErr) == [resp |-> FALSE, err |-> Err("transport")]

\* Do when the transport call fails: ctx.Err() if ctx is done, else the
\* transport's error; no Response.
DoTransportError(ctxErr) ==
    [resp |-> FALSE,
     err |-> IF ctxErr # "" THEN Err(ctxErr) ELSE Err("transport")]

\* ------------------------------------------------------------------ inputs

\* What callers and the environment supply: path strings, option values,
\* methods, request bodies, destinations, context terminations, the
\* transport's status codes and response bodies, and the numbers of bytes
\* the body reader offers at its successive Reads.
FullInputs ==
    [urlStrs |-> {"users/42", "/api/v1/groups", "https://other.okta.com/users/42", ":bad"},
     opts |-> {[kind |-> "nilptr", limit |-> 0],
               [kind |-> "struct", limit |-> 2],
               [kind |-> "string", limit |-> 0]},
     methods |-> {"GET", "BAD METHOD"},
     reqBodies |-> {"nil", "record", "chan"},
     dests |-> {NilDest, WriterDest, StructDest},
     reasons |-> {"context.Canceled", "context.DeadlineExceeded"},
     statuses |-> {199, 200, 201, 204, 299, 300, 404, 500},
     respBodies |-> {EmptyBody, IdBody, MsgBody, TextBody, CutBody, LongBody,
                     FailBody, FailCutBody},
     reads |-> {<<1>>, <<100>>, <<512>>, <<4096>>, <<5, 4096>>}]

\* The inputs of the concurrent specification: one of each kind that matters
\* to which fields of the Client a call reads or writes.
SmallInputs ==
    [urlStrs |-> {"users/42"},
     opts |-> {[kind |-> "nilptr", limit |-> 0]},
     methods |-> {"GET"},
     reqBodies |-> {"record"},
     dests |-> {StructDest},
     reasons |-> {"context.Canceled"},
     statuses |-> {200, 404},
     respBodies |-> {IdBody},
     reads |-> {<<512>>}]

\* ------------------------------------------------------------------ state

VARIABLES
    client,     \* the Client: BaseURL, organisation, apiToken, UserAgent
    pc,         \* per caller: "idle", "opts", "built", "inflight" (in the
                \* transport), "check", "store", "defer" (inside Do, after
                \* the response), "done"
    urlStr,     \* per caller: the path string addOptions returned, until
                \* NewRequest takes it
    req,        \* per caller: the *http.Request NewRequest returned
    authed,     \* per caller: AddAuthorization has been applied to req
    ctxDone,    \* per caller: "" or the reason ctx is done (ctx.Err())
    ctxAtSend,  \* per caller: ctxDone when Do called the transport
    dest,       \* per caller: the destination v passed to Do
    resp,       \* per caller: the *http.Response Do got from the transport
    ret         \* per caller: what the pipeline returned (Response, error)

vars == <<client, pc, urlStr, req, authed, ctxDone, ctxAtSend, dest, resp, ret>>

percall(k) == <<pc[k], urlStr[k], req[k], authed[k], ctxDone[k], ctxAtSend[k],
                dest[k], resp[k], ret[k]>>

\* No response yet; else its status, its body, and what Do did to the body.
NoResp == [got |-> FALSE, status |-> 0, body |-> EmptyBody, bs |-> NoBodyState]

NoRet == [resp |-> FALSE, err |-> NilErr]

\* New(apiToken, organisation): the Client after construction.
New(apiToken, organisation) ==
    [BaseURL |-> UrlParse(buildURL(organisation)).u,
     organisation |-> organisation,
     apiToken |-> apiToken,
     UserAgent |-> ""]

\* The Client as New returns it, with the exported UserAgent field left
\* empty or set by the embedding application before the first call.
Init ==
    /\ \E apiToken \in {"", "tok123"}, ua \in {"", "okta-go"} :
          client = [New(apiToken, "acme") EXCEPT !.UserAgent = ua]
    /\ pc = [k \in Calls |-> "idle"]
    /\ urlStr = [k \in Calls |-> ""]
    /\ req = [k \in Calls |-> NoReq]
    /\ authed = [k \in Calls |-> FALSE]
    /\ ctxDone = [k \in Calls |-> ""]
    /\ ctxAtSend = [k \in Calls |-> ""]
    /\ dest = [k \in Calls |-> NilDest]
    /\ resp = [k \in Calls |-> NoResp]
    /\ ret = [k \in Calls |-> NoRet]

\* A pipeline step that fails ends the call with that error and no Response.
Failed(err) == [NoRet EXCEPT !.err = err]

\* addOptions(s, opt), called by a list operation before NewRequest.
AddOptions(k, I) ==
    /\ pc[k] = "idle"
    /\ \E s \in I.urlStrs, opt \in I.opts :
          LET r == addOptions(s, opt) IN
          IF r.err = NilErr
          THEN /\ urlStr' = [urlStr EXCEPT ![k] = r.s]
               /\ pc' = [pc EXCEPT ![k] = "opts"]
               /\ ret' = ret
          ELSE /\ urlStr' = urlStr
               /\ pc' = [pc EXCEPT ![k] = "done"]
               /\ ret' = [ret EXCEPT ![k] = Failed(r.err)]
    /\ UNCHANGED <<client, req, authed, ctxDone, ctxAtSend, dest, resp>>

\* c.NewRequest(method, urlStr, body): the request, or an error.
newRequest(c, method, s, body) ==
    LET rel == UrlParse(s) IN
    IF ~rel.ok THEN [req |-> NoReq, err |-> Err("url.Error")]
    ELSE IF body = "chan" THEN [req |-> NoReq, err |-> Err("json.UnsupportedTypeError")]
    ELSE IF method \notin ValidMethods
    THEN [req |-> NoReq, err |-> Err("net/http: invalid method")]
    ELSE LET u == ResolveReference(c.BaseURL, rel.u)
             h1 == IF body # "nil"
                   THEN HeaderSet(NoHeaders, "Content-Type", "application/json")
                   ELSE NoHeaders
             h2 == HeaderSet(h1, "Accept", "application/json")
             h3 == IF c.UserAgent # ""
                   THEN HeaderSet(h2, "User-Agent", c.UserAgent)
                   ELSE h2
         IN [req |-> [Method |-> method, URL |-> URLString(u), Header |-> h3,
                      hasBody |-> body # "nil"],
             err |-> NilErr]

\* A NewRequest that stores the resolved URL in the Client's BaseURL.
NewRequestRebase(k, I) ==
    /\ pc[k] \in {"idle", "opts"}
    /\ \E method \in I.methods, body \in I.reqBodies,
          s \in IF pc[k] = "opts" THEN {urlStr[k]} ELSE I.urlStrs :
          LET r == newRequest(client, method, s, body) IN
          IF r.err = NilErr
          THEN /\ req' = [req EXCEPT ![k] = r.req]
               /\ pc' = [pc EXCEPT ![k] = "built"]
               /\ ret' = ret
               /\ urlStr' = [urlStr EXCEPT ![k] = ""]
               /\ client' = [client EXCEPT !.BaseURL = UrlParse(r.req.URL).u]
          ELSE /\ req' = req
               /\ pc' = [pc EXCEPT ![k] = "done"]
               /\ ret' = [ret EXCEPT ![k] = Failed(r.err)]
               /\ urlStr' = [urlStr EXCEPT ![k] = ""]
               /\ client' = client
    /\ UNCHANGED <<authed, ctxDone, ctxAtSend, dest, resp>>

NewRequest(k, I) ==
    /\ pc[k] \in {"idle", "opts"}
    /\ \E method \in I.methods, body \in I.reqBodies,
          s \in IF pc[k] = "opts" THEN {urlStr[k]} ELSE I.urlStrs :
          LET r == newRequest(client, method, s, body) IN
          IF r.err = NilErr
          THEN /\ req' = [req EXCEPT ![k] = r.req]
               /\ pc' = [pc EXCEPT ![k] = "built"]
               /\ ret' = ret
               /\ urlStr' = [urlStr EXCEPT ![k] = ""]
          ELSE /\ req' = req
               /\ pc' = [pc EXCEPT ![k] = "done"]
               /\ ret' = [ret EXCEPT ![k] = Failed(r.err)]
               /\ urlStr' = [urlStr EXCEPT ![k] = ""]
    /\ UNCHANGED <<client, authed, ctxDone, ctxAtSend, dest, resp>>

\* An authorization that sends the bare token, without the SSWS scheme.
addAuthorizationBare(c, r) ==
    IF c.apiToken # ""
    THEN [r EXCEPT !.Header = HeaderSet(r.Header, "Authorization", c.apiToken)]
    ELSE r

\* c.AddAuthorization(ctx, req): sets Authorization if a token is configured.
addAuthorization(c, r) ==
    IF c.apiToken # ""
    THEN [r EXCEPT !.Header = HeaderSet(r.Header, "Authorization", "SSWS " \o c.apiToken)]
    ELSE r

AddAuthorization(k) ==
    /\ pc[k] = "built"
    /\ ~authed[k]
    /\ req' = [req EXCEPT ![k] = addAuthorization(client, req[k])]
    /\ authed' = [authed EXCEPT ![k] = TRUE]
    /\ UNCHANGED <<client, pc, urlStr, ctxDone, ctxAtSend, dest, resp, ret>>

\* The caller's context is cancelled or reaches its deadline.
CancelCtx(k, I) ==
    /\ pc[k] \in {"built", "inflight", "check", "store", "defer"}
    /\ ctxDone[k] = ""
    /\ \E reason \in I.reasons : ctxDone' = [ctxDone EXCEPT ![k] = reason]
    /\ UNCHANGED <<client, pc, urlStr, req, authed, ctxAtSend, dest, resp, ret>>

\* Do up to c.client.Do(req): the request gets Accept and Content-Type and
\* goes to the transport.
doPrepare(r) ==
    [r EXCEPT !.Header = HeaderSet(HeaderSet(r.Header, "Accept", "application/json"),
                                   "Content-Type", "application/json")]

DoSend(k, I) ==
    /\ pc[k] = "built"
    /\ req' = [req EXCEPT ![k] = doPrepare(req[k])]
    /\ \E v \in I.dests : dest' = [dest EXCEPT ![k] = v]
    /\ ctxAtSend' = [ctxAtSend EXCEPT ![k] = ctxDone[k]]
    /\ pc' = [pc EXCEPT ![k] = "inflight"]
    /\ UNCHANGED <<client, urlStr, authed, ctxDone, resp, ret>>

\* c.client.Do(req) returns an error: Do returns (nil, ctx.Err() or err).
DoFail(k) ==
    /\ pc[k] = "inflight"
    /\ ret' = [ret EXCEPT ![k] = DoTransportError(ctxDone[k])]
    /\ pc' = [pc EXCEPT ![k] = "done"]
    /\ UNCHANGED <<client, urlStr, req, authed, ctxDone, ctxAtSend, dest, resp>>

\* c.client.Do(req) returns a response; its body is still to be read.
DoReceive(k, I) ==
    /\ pc[k] = "inflight"
    /\ \E status \in I.statuses, body \in I.respBodies :
          resp' = [resp EXCEPT ![k] = [got |-> TRUE, status |-> status,
                                       body |-> body, bs |-> NoBodyState]]
    /\ pc' = [pc EXCEPT ![k] = "check"]
    /\ UNCHANGED <<client, urlStr, req, authed, ctxDone, ctxAtSend, dest, ret>>

\* newResponse and checkResponse: on an error Do returns the Response with
\* it, and only the deferred drain is left to run.
DoCheck(k) ==
    /\ pc[k] = "check"
    /\ LET cr == checkResponse(resp[k].status, resp[k].body) IN
       IF cr.err # NilErr
       THEN /\ ret' = [ret EXCEPT ![k] = ErrorReturn(cr.err)]
            /\ resp' = [resp EXCEPT ![k].bs = cr.bs]
            /\ pc' = [pc EXCEPT ![k] = "defer"]
       ELSE /\ ret' = ret
            /\ resp' = resp
            /\ pc' = [pc EXCEPT ![k] = "store"]
    /\ UNCHANGED <<client, urlStr, req, authed, ctxDone, ctxAtSend, dest>>

\* The body goes to the destination v; Do returns (response, err).
DoDecode(k, I) ==
    /\ pc[k] = "store"
    /\ \E reads \in I.reads :
          LET r == DoStore(resp[k].body, dest[k], reads) IN
          /\ ret' = [ret EXCEPT ![k] = [resp |-> TRUE, err |-> r.err]]
          /\ dest' = [dest EXCEPT ![k] = r.v]
          /\ resp' = [resp EXCEPT ![k].bs = r.bs]
    /\ pc' = [pc EXCEPT ![k] = "defer"]
    /\ UNCHANGED <<client, urlStr, req, authed, ctxDone, ctxAtSend>>

\* The deferred function runs as Do returns: drain, then close.
DoDefer(k) ==
    /\ pc[k] = "defer"
    /\ resp' = [resp EXCEPT ![k].bs = DrainAndClose(resp[k].body, resp[k].bs)]
    /\ pc' = [pc EXCEPT ![k] = "done"]
    /\ UNCHANGED <<client, urlStr, req, authed, ctxDone, ctxAtSend, dest, ret>>

\* The caller takes the result; its request, context and destination go.
Return(k) ==
    /\ pc[k] = "done"
    /\ pc' = [pc EXCEPT ![k] = "idle"]
    /\ urlStr' = [urlStr EXCEPT ![k] = ""]
    /\ req' = [req EXCEPT ![k] = NoReq]
    /\ authed' = [authed EXCEPT ![k] = FALSE]
    /\ ctxDone' = [ctxDone EXCEPT ![k] = ""]
    /\ ctxAtSend' = [ctxAtSend EXCEPT ![k] = ""]
    /\ dest' = [dest EXCEPT ![k] = NilDest]
    /\ resp' = [resp EXCEPT ![k] = NoResp]
    /\ ret' = [ret EXCEPT ![k] = NoRet]
    /\ UNCHANGED client

\* One caller at a time, every input.
Next ==
    \E k \in {1} :
        \/ AddOptions(k, FullInputs)
        \/ NewRequest(k, FullInputs)
        \/ AddAuthorization(k)
        \/ CancelCtx(k, FullInputs)
        \/ DoSend(k, FullInputs)
        \/ DoFail(k)
        \/ DoReceive(k, FullInputs)
        \/ DoCheck(k)
        \/ DoDecode(k, FullInputs)
        \/ DoDefer(k)
        \/ Return(k)

Spec == Init /\ [][Next]_vars

\* NumCalls callers interleaved on the one Client.
NextConc ==
    \E k \in Calls :
        \/ AddOptions(k, SmallInputs)
        \/ NewRequest(k, SmallInputs)
        \/ AddAuthorization(k)
        \/ CancelCtx(k, SmallInputs)
        \/ DoSend(k, SmallInputs)
        \/ DoFail(k)
        \/ DoReceive(k, SmallInputs)
        \/ DoCheck(k)
        \/ DoDecode(k, SmallInputs)
        \/ DoDefer(k)
        \/ Return(k)

SpecConc == Init /\ [][NextConc]_vars

\* ------------------------------------------------------------------ claims

\* Do has been called on caller k's request and has returned.
Returned(k) == pc[k] = "done" /\ req[k] # NoReq

Is2xx(c) == 200 <= c /\ c <= 299

CtxErrs == {Err("context.Canceled"), Err("context.DeadlineExceeded")}

\* C1: for every response Do receives, the status check yields no error when
\* 200 <= status <= 299, and for every other status Do returns an
\* ErrorResponse whose Code is the status, whatever the body.
C1_StatusDecidesError ==
    \A k \in Calls :
        Returned(k) /\ ret[k].resp =>
            IF Is2xx(resp[k].status)
            THEN ret[k].err.kind # "ErrorResponse"
            ELSE ret[k].err.kind = "ErrorResponse" /\ ret[k].err.Code = resp[k].status

\* C2 as stated: every request Do dispatches yields a Response to the caller,
\* on every outcome of the call.
C2_AlwaysAResponse ==
    \A k \in Calls : Returned(k) => ret[k].resp

\* C2 amended: Do returns a Response exactly when the transport returned
\* one (then together with an ErrorResponse if the status is not 2xx); when
\* the transport call fails Do returns no Response, only the error.
C2_ResponseIffTransportResponded ==
    \A k \in Calls :
        Returned(k) =>
            /\ ret[k].resp <=> resp[k].got
            /\ resp[k].got /\ ~Is2xx(resp[k].status) =>
                   ret[k].resp /\ ret[k].err.kind = "ErrorResponse"
            /\ ~resp[k].got => ret[k].err # NilErr

C2_Witness ==
    \E k \in Calls :
        /\ Returned(k)
        /\ resp[k].status = 404
        /\ ret[k].resp
        /\ ret[k].err.kind = "ErrorResponse"

\* C3: when the transport call fails, Do returns ctx.Err() if ctx is done
\* at that moment, and the transport's error unchanged if it is not.
C3_CtxErrorPreferred ==
    \A k \in Calls :
        Returned(k) /\ ~resp[k].got =>
            ret[k].err = IF ctxDone[k] # "" THEN Err(ctxDone[k]) ELSE Err("transport")

C3_Witness ==
    \E k \in Calls :
        /\ Returned(k)
        /\ ~resp[k].got
        /\ ctxAtSend[k] = ""
        /\ ctxDone[k] = "context.DeadlineExceeded"
        /\ ret[k].err = Err("context.DeadlineExceeded")

\* C4: if ctx is cancelled or past its deadline before Do dispatches the
\* request, the error Do returns is ctx.Err(), whatever the transport
\* reports for that call.
C4_CancelledBeforeDispatch ==
    \A k \in Calls :
        Returned(k) /\ ctxAtSend[k] # "" => ret[k].err = Err(ctxAtSend[k])

\* C5: with a non-empty API token, a request that went through NewRequest,
\* AddAuthorization and Do is at the transport with Authorization equal to
\* "SSWS " followed by the token.
C5_AuthorizationOnTheWire ==
    \A k \in Calls :
        pc[k] = "inflight" /\ authed[k] /\ client.apiToken # "" =>
            req[k].Header["Authorization"] = "SSWS " \o client.apiToken

C5_Witness ==
    \E k \in Calls :
        /\ pc[k] = "inflight"
        /\ authed[k]
        /\ client.apiToken = "tok123"
        /\ req[k].URL = "https://acme.okta.com/users/42"
        /\ req[k].Header["Authorization"] = "SSWS tok123"

\* C6: a request built by NewRequest and sent by Do is at the transport with
\* Content-Type application/json if it has a body and without Content-Type
\* if it has none; Accept application/json in both cases.
C6_ContentTypeOnlyWithBody ==
    \A k \in Calls :
        pc[k] = "inflight" =>
            /\ req[k].Header["Accept"] = "application/json"
            /\ req[k].hasBody => req[k].Header["Content-Type"] = "application/json"
            /\ ~req[k].hasBody => req[k].Header["Content-Type"] = Absent

\* C7: no step of any caller changes the Client (BaseURL, organisation,
\* apiToken, UserAgent), and a step of one caller leaves every other
\* caller's request, context, destination and result as they are.
C7_ClientImmutable ==
    [][/\ client' = client
       /\ \E k \in Calls : \A j \in Calls \ {k} : percall(j)' = percall(j)]_vars

C7_Witness ==
    \E j, k \in Calls :
        /\ j # k
        /\ pc[j] = "inflight"
        /\ Returned(k)
        /\ ret[k].resp
        /\ client = New(client.apiToken, "acme")

\* C8: whenever the transport returned a response, by the time Do returns
\* the body has been drained by at most 512 further bytes and then closed,
\* after any decoding, copy or error-body read.
C8_DrainedAndClosed ==
    \A k \in Calls :
        /\ pc[k] \in {"check", "store", "defer"} =>
               /\ ~resp[k].bs.closed
               /\ resp[k].bs.drained = 0
               /\ \A i \in 1..Len(resp[k].bs.log) :
                      resp[k].bs.log[i] \notin {"CopyN", "Close"}
        /\ Returned(k) /\ resp[k].got =>
            LET bs == resp[k].bs
                n == Len(bs.log)
            IN /\ bs.closed
               /\ bs.drained <= DrainLimit
               /\ bs.off <= resp[k].body.len
               /\ n >= 2
               /\ bs.log[n] = "Close"
               /\ bs.log[n - 1] = "CopyN"
               /\ \A i \in 1..(n - 2) : bs.log[i] \notin {"CopyN", "Close"}

C8_Witness ==
    \E k \in Calls :
        /\ Returned(k)
        /\ ret[k].resp
        /\ resp[k].body = LongBody
        /\ resp[k].bs.drained = DrainLimit
        /\ resp[k].bs.off < resp[k].body.len
        /\ resp[k].bs.closed

\* C9: an I/O error met while the response body is read (by checkResponse,
\* by the copy to an io.Writer, or by the JSON decoder) is the error Do
\* returns.
C9_BodyReadErrorSurfaced ==
    \A k \in Calls :
        Returned(k) /\ resp[k].bs.ioErr # "" => ret[k].err = Err("bodyIOError")

\* C10: a 2xx response with an empty body and a non-nil destination that is
\* no io.Writer gives the Response, a nil error, and an unmodified
\* destination.
C10_EmptyBodyNoError ==
    \A k \in Calls :
        /\ Returned(k)
        /\ resp[k].got
        /\ Is2xx(resp[k].status)
        /\ resp[k].body = EmptyBody
        /\ dest[k].kind = "struct"
        => ret[k].resp /\ ret[k].err = NilErr /\ dest[k] = StructDest

C10_Witness ==
    \E k \in Calls :
        /\ Returned(k)
        /\ resp[k].got
        /\ resp[k].status = 204
        /\ resp[k].body = EmptyBody
        /\ dest[k] = StructDest
        /\ resp[k].bs.log = <<"Decode", "CopyN", "Close">>
        /\ ret[k].err = NilErr

====
